---- MODULE Spec2Model ----
(***************************************************************************)
(* A model of the anime analytics dashboard (src/app.py): the cached       *)
(* loader with its list-field decoder, and the script's filter, aggregate  *)
(* and search stages, re-run once per parameter change.                    *)
(*                                                                         *)
(* Numbers: score is kept in tenths (6.0 is 60); a missing numeric cell    *)
(* (pandas NaN) is the value NaN below, and every comparison with it is    *)
(* false, as in pandas.  Ratios are exact rationals compared by cross      *)
(* multiplication.                                                         *)
(***************************************************************************)
EXTENDS Integers, Sequences, FiniteSets, TLC

(***************************************************************************)
(* Bounds of the model.                                                    *)
(***************************************************************************)
MaxTok == 3
MaxElems == 2

(***************************************************************************)
(* Python values.  t is the type; s is the text of a str (or the digits of *)
(* an int) as a sequence of tokens; items are the elements of a list or a  *)
(* tuple, each an item [t, s] (s of a nested list: its source text).       *)
(***************************************************************************)
PyVal(t, s, items) == [t |-> t, s |-> s, items |-> items]
PyNaN == PyVal("nan", <<>>, <<>>)
PyStr(s) == PyVal("str", s, <<>>)
PyInt(s) == PyVal("int", s, <<>>)
PyList(items) == PyVal("list", <<>>, items)
PyTuple(items) == PyVal("tuple", <<>>, items)
NoValue == PyVal("none", <<>>, <<>>)
EmptyList == PyList(<<>>)
StrItem(c) == [t |-> "str", s |-> <<c>>]

\* The alphabet of a decoded cell's text: brackets, comma, two quoted
\* strings, a digit and a bare word.  StrToks are all the quoted strings a
\* cell of the catalog may hold.
Tok == {"[", "]", ",", "'A'", "'B'", "5", "A"}
StrToks == {"'A'", "'B'", "'C'", "'D'", "'E'", "'F'", "'G'"}
Content(k) ==
    CASE k = "'A'" -> "A" [] k = "'B'" -> "B" [] k = "'C'" -> "C"
      [] k = "'D'" -> "D" [] k = "'E'" -> "E" [] k = "'F'" -> "F"
      [] OTHER -> "G"

SeqsUpTo(S, n) == UNION {[1..k -> S] : k \in 0..n}

(***************************************************************************)
(* ast.literal_eval on the text toks.  Adjacent string literals are one    *)
(* string, adjacent digits one number, a top-level comma makes a tuple, a  *)
(* trailing comma is allowed; anything else raises.                        *)
(***************************************************************************)
ParseFail == [ok |-> FALSE, v |-> NoValue, next |-> 0]
ParseOk(v, next) == [ok |-> TRUE, v |-> v, next |-> next]

RECURSIVE StrRun(_, _, _)
StrRun(toks, i, acc) ==
    IF i <= Len(toks) /\ toks[i] \in StrToks
    THEN StrRun(toks, i + 1, Append(acc, Content(toks[i])))
    ELSE ParseOk(PyStr(acc), i)

RECURSIVE DigitRun(_, _, _)
DigitRun(toks, i, acc) ==
    IF i <= Len(toks) /\ toks[i] = "5"
    THEN DigitRun(toks, i + 1, Append(acc, toks[i]))
    ELSE ParseOk(PyInt(acc), i)

\* The element of a list or tuple that the parsed value r, read from
\* position i, becomes.
ItemOf(toks, i, r) ==
    [t |-> r.v.t,
     s |-> IF r.v.t \in {"str", "int"} THEN r.v.s ELSE SubSeq(toks, i, r.next - 1)]

RECURSIVE ParseValue(_, _), ParseItems(_, _, _)
ParseValue(toks, i) ==
    IF i > Len(toks) THEN ParseFail
    ELSE IF toks[i] \in StrToks THEN StrRun(toks, i, <<>>)
    ELSE IF toks[i] = "5" THEN DigitRun(toks, i, <<>>)
    ELSE IF toks[i] = "[" THEN ParseItems(toks, i + 1, <<>>)
    ELSE ParseFail

ParseItems(toks, i, acc) ==
    IF i > Len(toks) THEN ParseFail
    ELSE IF toks[i] = "]" THEN ParseOk(PyList(acc), i + 1)
    ELSE LET r == ParseValue(toks, i) IN
         IF ~r.ok \/ r.next > Len(toks) THEN ParseFail
         ELSE LET acc2 == Append(acc, ItemOf(toks, i, r)) IN
              IF toks[r.next] = "," THEN ParseItems(toks, r.next + 1, acc2)
              ELSE IF toks[r.next] = "]" THEN ParseOk(PyList(acc2), r.next + 1)
              ELSE ParseFail

RECURSIVE ParseTuple(_, _, _)
ParseTuple(toks, i, acc) ==
    IF i > Len(toks) THEN ParseOk(PyTuple(acc), i)
    ELSE LET r == ParseValue(toks, i) IN
         IF ~r.ok THEN ParseFail
         ELSE LET acc2 == Append(acc, ItemOf(toks, i, r)) IN
              IF r.next > Len(toks) THEN ParseOk(PyTuple(acc2), r.next)
              ELSE IF toks[r.next] = "," THEN ParseTuple(toks, r.next + 1, acc2)
              ELSE ParseFail

literal_eval(toks) ==
    LET r == ParseValue(toks, 1) IN
    IF ~r.ok THEN ParseFail
    ELSE IF r.next > Len(toks) THEN r
    ELSE IF toks[r.next] = ","
         THEN ParseTuple(toks, r.next + 1, <<ItemOf(toks, 1, r)>>)
    ELSE ParseFail

(***************************************************************************)
(* pd.isna(val) used as a condition (line 27).  A scalar gives a bool.  A  *)
(* list gives an array, one bool per element: its truth value is that     *)
(* bool for one element, raises ValueError for two or more, and for none   *)
(* is False or raises, depending on the numpy installed (emptyRaises).     *)
(***************************************************************************)
isna_truth(val, emptyRaises) ==
    IF val.t = "nan" THEN "true"
    ELSE IF val.t = "list"
         THEN IF Len(val.items) = 0
                 THEN (IF emptyRaises THEN "raise" ELSE "false")
              ELSE IF Len(val.items) = 1 THEN "false"
              ELSE "raise"
    ELSE "false"

\* val in ['[]', ''] (line 27)
is_empty_literal(val) == val.t = "str" /\ val.s \in {<<"[", "]">>, <<>>}

\* safe_eval (lines 25-34)
safe_eval(val, emptyRaises) ==
    LET na == isna_truth(val, emptyRaises) IN
    IF na = "raise" THEN EmptyList
    ELSE IF na = "true" \/ is_empty_literal(val) THEN EmptyList
    ELSE IF val.t = "str"
         THEN LET r == literal_eval(val.s) IN IF r.ok THEN r.v ELSE EmptyList
    ELSE IF val.t = "list" THEN val ELSE EmptyList


(***************************************************************************)
(* Tables.  A table is a sequence of rows (records).  A missing number is  *)
(* NaN; a missing title is the one-element text NoTitle; a missing type    *)
(* is NoType.                                                              *)
(***************************************************************************)
NaN == -1
NoTitle == <<"NaN">>
NoType == "NaN"
isna(x) == x = NaN
notna(x) == x # NaN

\* Comparisons of a column with a number: false on NaN.
ge(x, y) == notna(x) /\ x >= y
le(x, y) == notna(x) /\ x <= y
gt(x, y) == notna(x) /\ x > y

RECURSIVE SumSeq(_)
SumSeq(xs) == IF xs = <<>> THEN 0 ELSE Head(xs) + SumSeq(Tail(xs))

Column(rows, f(_)) == [i \in 1..Len(rows) |-> f(rows[i])]
Range(xs) == {xs[i] : i \in DOMAIN xs}
head(xs, n) == SubSeq(xs, 1, IF Len(xs) < n THEN Len(xs) ELSE n)
Min(S) == CHOOSE x \in S : \A y \in S : x <= y
Max(S) == CHOOSE x \in S : \A y \in S : x >= y

\* xs sorted by the strict order before(_, _), stably: equal elements keep
\* their order in xs.
StableSort(xs, before(_, _)) ==
    LET n == Len(xs)
        rank(i) == Cardinality({j \in 1..n :
                        \/ before(xs[j], xs[i])
                        \/ (j < i /\ ~before(xs[i], xs[j]))})
    IN [k \in 1..n |-> xs[CHOOSE i \in 1..n : rank(i) = k - 1]]

\* Rationals <<numerator, denominator>>, denominator > 0.
LessQ(a, b) == a[1] * b[2] < b[1] * a[2]
AvgQ(a, b) == <<a[1] * b[2] + b[1] * a[2], 2 * a[2] * b[2]>>

\* Series.median(): the middle value, or the mean of the two middle values.
median(qs) ==
    LET sorted == StableSort(qs, LessQ)
        n == Len(qs)
    IN IF n % 2 = 1 THEN sorted[(n + 1) \div 2]
       ELSE AvgQ(sorted[n \div 2], sorted[n \div 2 + 1])

\* The distinct values of xs, in order of first appearance.
RECURSIVE Distinct(_)
Distinct(xs) ==
    IF xs = <<>> THEN <<>>
    ELSE LET rest == Distinct(SubSeq(xs, 1, Len(xs) - 1))
             x == xs[Len(xs)]
         IN IF x \in Range(rest) THEN rest ELSE Append(rest, x)

Occurrences(xs, v) == Cardinality({i \in DOMAIN xs : xs[i] = v})

\* Series.value_counts(): [key, count] by descending count, ties in order
\* of first appearance.
value_counts(xs) ==
    StableSort([i \in 1..Len(Distinct(xs)) |->
                   [key |-> Distinct(xs)[i], count |-> Occurrences(xs, Distinct(xs)[i])]],
               LAMBDA a, b : a.count > b.count)

(***************************************************************************)
(* Iterating a decoded cell (for g in genres): the elements of a list or   *)
(* tuple, the characters of a str; an int is not iterable and has no len.  *)
(***************************************************************************)
Iterable(v) == v.t \in {"list", "tuple", "str"}
Elements(v) == IF v.t = "str" THEN [i \in 1..Len(v.s) |-> StrItem(v.s[i])] ELSE v.items

RECURSIVE Flatten(_)
Flatten(cells) ==
    IF cells = <<>> THEN <<>> ELSE Elements(Head(cells)) \o Flatten(Tail(cells))

(***************************************************************************)
(* The source file and the loader.                                         *)
(***************************************************************************)
\* A row of anime_dataset.csv as read_csv delivers it.
CsvRow(title, score, start_date, genres, studios, members, rec, type) ==
    [title |-> title, score |-> score, start_date |-> start_date, genres |-> genres,
     studios |-> studios, members |-> members, recommendation_count |-> rec,
     type |-> type]

\* pd.to_datetime(..., errors='coerce').dt.year (line 23): a date text is
\* <<year, month, day>>; a missing or impossible date gives NaN.
to_year(d) ==
    IF Len(d) = 3 /\ d[2] \in 1..12 /\ d[3] \in 1..31 THEN d[1] ELSE NaN

\* Lines 23-37: row i of the file (i its index label) with its year and
\* decoded list columns.
Normalize(r, i, emptyRaises) ==
    [index |-> i, title |-> r.title, score |-> r.score, start_date |-> r.start_date,
     genres |-> r.genres, studios |-> r.studios, members |-> r.members,
     recommendation_count |-> r.recommendation_count, type |-> r.type,
     year |-> to_year(r.start_date),
     genres_list |-> safe_eval(r.genres, emptyRaises),
     studios_list |-> safe_eval(r.studios, emptyRaises)]

\* load_data (lines 16-39): None (ok = FALSE) with the message when
\* read_csv raises, else the normalized table.
load_data(f, emptyRaises) ==
    IF ~f.readable
    THEN [ok |-> FALSE, df |-> <<>>,
          message |-> "Dataset not found. Please upload anime_dataset.csv"]
    ELSE [ok |-> TRUE, df |-> [i \in 1..Len(f.rows) |-> Normalize(f.rows[i], i, emptyRaises)],
          message |-> ""]

(***************************************************************************)
(* The sidebar (lines 48-51).  The sliders are the presentation layer:     *)
(* the model lets the year slider return any range lo <= hi of YearTicks   *)
(* within [min_year, max_year] and the score slider any of ScoreTicks.     *)
(***************************************************************************)
DefaultMinYear == 1917
DefaultMaxYear == 2025
YearTicks == {1995, 2005}
ScoreTicks == {60, 80}

Years(df) == {df[i].year : i \in DOMAIN df} \ {NaN}
min_year(df) == IF Years(df) # {} THEN Min(Years(df)) ELSE DefaultMinYear
max_year(df) == IF Years(df) # {} THEN Max(Years(df)) ELSE DefaultMaxYear

SliderRanges(df) ==
    {yr \in YearTicks \X YearTicks :
        min_year(df) <= yr[1] /\ yr[1] <= yr[2] /\ yr[2] <= max_year(df)}

(***************************************************************************)
(* The filter (lines 53-57).                                               *)
(***************************************************************************)
\* The filter with a bug: a strict lower bound on the score.
keep_row_strict(r, yr, smin) ==
    ge(r.year, yr[1]) /\ le(r.year, yr[2]) /\ gt(r.score, smin)

keep_row(r, yr, smin) ==
    ge(r.year, yr[1]) /\ le(r.year, yr[2]) /\ ge(r.score, smin)

filter_rows(df, yr, smin) == SelectSeq(df, LAMBDA r : keep_row(r, yr, smin))

\* The base table after the filter with a bug: the subset assigned over it.
base_overwritten(df, subset) == subset

\* The base table after the filter: the subset is a copy, df is untouched.
base_after_filter(df, subset) == df

(***************************************************************************)
(* Summary metrics (lines 63-73).                                          *)
(***************************************************************************)
NAItem == StrItem("N/A")

\* Series.mean() and Series.sum() skip NaN; the mean is <<sum, count>>,
\* NaN (count 0) over nothing.
present(xs) == SelectSeq(xs, notna)
mean(xs) == <<SumSeq(present(xs)), Len(present(xs))>>

\* Flattening a list column raises TypeError when a cell is not iterable,
\* value_counts when an element is unhashable (a nested list).
flatten_raises(cells) ==
    \E i \in DOMAIN cells :
        \/ ~Iterable(cells[i])
        \/ \E j \in DOMAIN Elements(cells[i]) : Elements(cells[i])[j].t = "list"

genres_of(rows) == Column(rows, LAMBDA r : r.genres_list)
studios_of(rows) == Column(rows, LAMBDA r : r.studios_list)

summary(df_filtered) ==
    LET genres_flat == Flatten(genres_of(df_filtered)) IN
    [total |-> Len(df_filtered),
     avg_score |-> mean(Column(df_filtered, LAMBDA r : r.score)),
     total_members |-> SumSeq(present(Column(df_filtered, LAMBDA r : r.members))),
     genres_flat |-> genres_flat,
     top_genre |-> IF genres_flat # <<>> THEN value_counts(genres_flat)[1].key ELSE NAItem]

(***************************************************************************)
(* Top studios (lines 90-96).                                              *)
(***************************************************************************)
TopStudios == 10

studios(df_filtered) ==
    LET studios_flat == Flatten(studios_of(df_filtered)) IN
    [studios_flat |-> studios_flat,
     top_studios |-> IF studios_flat # <<>>
                     THEN head(value_counts(studios_flat), TopStudios) ELSE <<>>]

(***************************************************************************)
(* Hidden gems (lines 101-130).                                            *)
(***************************************************************************)
MinMembers == 100
TopGems == 10

\* The comparison population with a bug: the members > 100 test left out.
in_gems_any_members(r) == notna(r.recommendation_count) /\ notna(r.members)

\* Lines 102-103: the rows the medians are taken over.
in_gems(r) == notna(r.recommendation_count) /\ gt(r.members, MinMembers)

with_ratio(r) ==
    [index |-> r.index, title |-> r.title, score |-> r.score, members |-> r.members,
     recommendation_count |-> r.recommendation_count,
     rec_ratio |-> <<r.recommendation_count, r.members>>]

\* DataFrame.nlargest(n, 'rec_ratio'): descending, ties in table order.
nlargest(n, rows) == head(StableSort(rows, LAMBDA a, b : LessQ(b.rec_ratio, a.rec_ratio)), n)

gems(df_filtered) ==
    LET selected == SelectSeq(df_filtered, in_gems)
        df_gems == Column(selected, with_ratio)
    IN IF Len(df_gems) > 0
       THEN LET median_members == median(Column(df_gems, LAMBDA r : <<r.members, 1>>))
                median_ratio == median(Column(df_gems, LAMBDA r : r.rec_ratio))
                is_hidden(r) == /\ LessQ(<<r.members, 1>>, median_members)
                                /\ LessQ(median_ratio, r.rec_ratio)
            IN [df_gems |-> df_gems, median_members |-> median_members,
                median_ratio |-> median_ratio,
                hidden |-> Column(nlargest(TopGems, SelectSeq(df_gems, is_hidden)),
                                  LAMBDA r : [index |-> r.index, title |-> r.title,
                                              score |-> r.score, members |-> r.members,
                                              rec_ratio |-> r.rec_ratio])]
       ELSE [df_gems |-> df_gems, median_members |-> <<0, 1>>,
             median_ratio |-> <<0, 1>>, hidden |-> <<>>]

(***************************************************************************)
(* Genre trends (lines 135-153).                                           *)
(***************************************************************************)
TopGenres == 6

\* len(genres_list) raises TypeError on an int.
len_raises(cells) == \E i \in DOMAIN cells : ~Iterable(cells[i])

decade_of(year) == (year \div 10) * 10

with_decade(r) ==
    [index |-> r.index, year |-> r.year, genres_list |-> r.genres_list,
     decade |-> decade_of(r.year)]

\* sorted(df_trends['decade'].unique())
sorted_decades(df_trends) ==
    StableSort(Distinct(Column(df_trends, LAMBDA r : r.decade)), LAMBDA a, b : a < b)

\* The genres charted, with a bug: one too few.
charted_genres_short(all_genres) ==
    Column(head(value_counts(all_genres), TopGenres - 1), LAMBDA c : c.key)

\* Line 139: value_counts().head(6).index.tolist()
charted_genres(all_genres) ==
    Column(head(value_counts(all_genres), TopGenres), LAMBDA c : c.key)

\* Lines 142-151: one row per decade, in ascending order, and per charted
\* genre, in the order of top_genres.
genre_counts(df_trends, top_genres) ==
    LET decades == sorted_decades(df_trends)
        ng == Len(top_genres)
        decade_genres(d) ==
            Flatten(genres_of(SelectSeq(df_trends, LAMBDA r : r.decade = d)))
    IN [k \in 1..(Len(decades) * ng) |->
            LET d == decades[(k - 1) \div ng + 1]
                g == top_genres[((k - 1) % ng) + 1]
            IN [decade |-> d, genre |-> g, count |-> Occurrences(decade_genres(d), g)]]

trends(df_filtered) ==
    LET df_trends == Column(SelectSeq(df_filtered,
                                      LAMBDA r : Len(Elements(r.genres_list)) > 0),
                            with_decade)
        top_genres == charted_genres(Flatten(genres_of(df_trends)))
    IN [df_trends |-> df_trends, top_genres |-> top_genres,
        genre_df |-> IF top_genres # <<>> THEN genre_counts(df_trends, top_genres)
                     ELSE <<>>]

(***************************************************************************)
(* Type distribution and average score by type (lines 165 and 172).        *)
(***************************************************************************)
TopTypes == 6

\* The types of the catalog, in the alphabetical order groupby puts its
\* groups in.
TypeNames == <<"Movie", "TV">>

\* groupby('type')['score'].mean().sort_values(ascending=False): rows
\* without a type are dropped; a NaN mean sorts last.
type_scores(df_filtered) ==
    LET typed == SelectSeq(df_filtered, LAMBDA r : r.type # NoType)
        names == SelectSeq(TypeNames,
                           LAMBDA t : t \in Range(Column(typed, LAMBDA r : r.type)))
        avg(t) == mean(Column(SelectSeq(typed, LAMBDA r : r.type = t),
                              LAMBDA r : r.score))
        higher(a, b) ==
            /\ a.mean[2] > 0
            /\ (b.mean[2] = 0 \/ LessQ(b.mean, a.mean))
    IN head(StableSort(Column(names, LAMBDA t : [type |-> t, mean |-> avg(t)]), higher),
            TopTypes)

types(df_filtered) ==
    [type_counts |->
        head(value_counts(SelectSeq(Column(df_filtered, LAMBDA r : r.type),
                                    LAMBDA t : t # NoType)), TopTypes),
     type_scores |-> type_scores(df_filtered)]

(***************************************************************************)
(* Search (lines 181-197).  Series.str.contains(pat, case=False, na=False) *)
(* takes pat as a regular expression: a letter matches itself in either    *)
(* case, "." matches any character, and a "(" that is never closed makes   *)
(* re.compile raise.                                                       *)
(***************************************************************************)
TopResults == 100

lower(c) == IF c = "A" THEN "a" ELSE IF c = "B" THEN "b" ELSE c

regex_raises(pat) == \E i \in DOMAIN pat : pat[i] = "("

regex_matches_at(pat, text, i) ==
    \A j \in 1..Len(pat) : pat[j] = "." \/ lower(pat[j]) = lower(text[i + j - 1])

regex_search(pat, text) ==
    \E i \in 1..(Len(text) - Len(pat) + 1) : regex_matches_at(pat, text, i)

contains(title, pat) == title # NoTitle /\ regex_search(pat, title)

\* sort_values('score', ascending=False).head(100): NaN scores last.
ranked(rows) ==
    head(StableSort(rows, LAMBDA a, b : notna(a.score) /\ (isna(b.score) \/ a.score > b.score)),
         TopResults)

search_results(df_filtered, query) ==
    LET results == IF query # <<>>
                   THEN SelectSeq(df_filtered, LAMBDA r : contains(r.title, query))
                   ELSE df_filtered
    IN [search |-> query, results |-> results,
        shown |-> Column(ranked(results),
                         LAMBDA r : [title |-> r.title, score |-> r.score, year |-> r.year,
                                     type |-> r.type, members |-> r.members])]

(***************************************************************************)
(* The running program.  The script is run top to bottom once per browser  *)
(* session and again on every change of a widget; each run has its own     *)
(* script variables (env), and all runs share load_data's cache.           *)
(***************************************************************************)
VARIABLES
    file,       \* anime_dataset.csv: whether read_csv can read it, and its rows
    cache,      \* st.cache_data's entry for load_data
    sessions,   \* the sessions connected
    pc,         \* where each session's run of the script is
    env,        \* the script variables of each run
    widgets,    \* what each session's widgets return in its current run
    d_in, d_out1, d_out2, d_pc,   \* the decoder applied on its own
    numpy_empty_raises            \* whether bool(array([])) raises

vars == <<file, cache, sessions, pc, env, widgets, d_in, d_out1, d_out2, d_pc,
          numpy_empty_raises>>
dvars == <<d_in, d_out1, d_out2, d_pc, numpy_empty_raises>>
pvars == <<file, cache, sessions, pc, env, widgets>>

Sessions == {1, 2}

\* The namespace with a bug: one set of script variables for all sessions.
SharedScope(s) == 1

\* The namespace session s's run executes the script in.
Scope(s) == s

NoWidgets == [year_range |-> <<0, 0>>, score_min |-> 0, search |-> <<>>]
NoCache == [state |-> "unset", ok |-> FALSE, df |-> <<>>, message |-> ""]

FreshEnv ==
    [df |-> <<>>, message |-> "", computed |-> {},
     min_year |-> 0, max_year |-> 0, year_range |-> <<0, 0>>, score_min |-> 0,
     df_filtered |-> <<>>,
     total |-> 0, avg_score |-> <<0, 0>>, total_members |-> 0, genres_flat |-> <<>>,
     top_genre |-> NAItem,
     studios_flat |-> <<>>, top_studios |-> <<>>,
     df_gems |-> <<>>, median_members |-> <<0, 1>>, median_ratio |-> <<0, 1>>,
     hidden |-> <<>>,
     df_trends |-> <<>>, top_genres |-> <<>>, genre_df |-> <<>>,
     type_counts |-> <<>>, type_scores |-> <<>>,
     search |-> <<>>, results |-> <<>>, shown |-> <<>>]

E(s) == env[Scope(s)]

\* The run of session s goes to position p with its variables updated by
\* the fields of upd and stage added to what it has computed.
Step(s, p, stage, upd) ==
    /\ pc' = [pc EXCEPT ![s] = p]
    /\ env' = [env EXCEPT ![Scope(s)] =
                  [computed |-> E(s).computed \cup {stage}] @@ upd @@ E(s)]

\* An uncaught exception ends the run.
Raise(s) ==
    /\ pc' = [pc EXCEPT ![s] = "error"]
    /\ UNCHANGED env

\* Lines 42-43 with a bug: no st.stop() after a failed load.
after_load_no_stop(ok) == "sliders"

\* Lines 42-43: st.stop() when load_data returned None.
after_load(ok) == IF ok THEN "sliders" ELSE "stopped"

\* Lines 15-43: df = load_data(), computed once and then served from the
\* cache (a copy to each caller, the message shown again).
Load(s) ==
    /\ s \in sessions
    /\ pc[s] = "start"
    /\ LET r == IF cache.state = "set" THEN cache
                ELSE [state |-> "set"] @@ load_data(file, numpy_empty_raises)
       IN /\ cache' = r
          /\ pc' = [pc EXCEPT ![s] = after_load(r.ok)]
          /\ env' = [env EXCEPT ![Scope(s)] =
                        [df |-> r.df, message |-> r.message,
                         computed |-> E(s).computed \cup {"load"}] @@ E(s)]
    /\ UNCHANGED <<file, sessions, widgets>>
    /\ UNCHANGED dvars

\* Lines 48-51
Sliders(s) ==
    /\ s \in sessions
    /\ pc[s] = "sliders"
    /\ \E yr \in SliderRanges(E(s).df), smin \in ScoreTicks :
          /\ widgets' = [widgets EXCEPT ![s] = [@ EXCEPT !.year_range = yr,
                                                         !.score_min = smin]]
          /\ Step(s, "filter", "sliders",
                  [min_year |-> min_year(E(s).df), max_year |-> max_year(E(s).df),
                   year_range |-> yr, score_min |-> smin])
    /\ UNCHANGED <<file, cache, sessions>>
    /\ UNCHANGED dvars

\* Lines 53-57
Filter(s) ==
    /\ s \in sessions
    /\ pc[s] = "filter"
    /\ LET subset == filter_rows(E(s).df, E(s).year_range, E(s).score_min) IN
          Step(s, "summary", "filter",
               [df_filtered |-> subset, df |-> base_after_filter(E(s).df, subset)])
    /\ UNCHANGED <<file, cache, sessions, widgets>>
    /\ UNCHANGED dvars

\* Lines 63-73
Summary(s) ==
    /\ s \in sessions
    /\ pc[s] = "summary"
    /\ IF flatten_raises(genres_of(E(s).df_filtered)) THEN Raise(s)
       ELSE Step(s, "studios", "summary", summary(E(s).df_filtered))
    /\ UNCHANGED <<file, cache, sessions, widgets>>
    /\ UNCHANGED dvars

\* Lines 79-96
Studios(s) ==
    /\ s \in sessions
    /\ pc[s] = "studios"
    /\ IF flatten_raises(studios_of(E(s).df_filtered)) THEN Raise(s)
       ELSE Step(s, "gems", "studios", studios(E(s).df_filtered))
    /\ UNCHANGED <<file, cache, sessions, widgets>>
    /\ UNCHANGED dvars

\* Lines 98-130
Gems(s) ==
    /\ s \in sessions
    /\ pc[s] = "gems"
    /\ Step(s, "trends", "gems", gems(E(s).df_filtered))
    /\ UNCHANGED <<file, cache, sessions, widgets>>
    /\ UNCHANGED dvars

\* Lines 132-158
Trends(s) ==
    /\ s \in sessions
    /\ pc[s] = "trends"
    /\ IF len_raises(genres_of(E(s).df_filtered)) THEN Raise(s)
       ELSE Step(s, "types", "trends", trends(E(s).df_filtered))
    /\ UNCHANGED <<file, cache, sessions, widgets>>
    /\ UNCHANGED dvars

\* Lines 160-176
Types(s) ==
    /\ s \in sessions
    /\ pc[s] = "types"
    /\ Step(s, "search", "types", types(E(s).df_filtered))
    /\ UNCHANGED <<file, cache, sessions, widgets>>
    /\ UNCHANGED dvars

\* What the user may have typed in the search box.
Queries == {<<>>, <<"a">>, <<"a", "B">>, <<".">>, <<"b", ".">>, <<"(">>}

\* Lines 178-197
Search(s) ==
    /\ s \in sessions
    /\ pc[s] = "search"
    /\ \E query \in Queries :
          /\ widgets' = [widgets EXCEPT ![s] = [@ EXCEPT !.search = query]]
          /\ IF query # <<>> /\ regex_raises(query) THEN Raise(s)
             ELSE Step(s, "done", "search", search_results(E(s).df_filtered, query))
    /\ UNCHANGED <<file, cache, sessions>>
    /\ UNCHANGED dvars

\* A widget changes, or the page is reloaded: the script runs again from
\* the top with fresh variables.
Rerun(s) ==
    /\ s \in sessions
    /\ pc[s] \in {"done", "stopped", "error"}
    /\ pc' = [pc EXCEPT ![s] = "start"]
    /\ env' = [env EXCEPT ![Scope(s)] = FreshEnv]
    /\ widgets' = [widgets EXCEPT ![s] = NoWidgets]
    /\ UNCHANGED <<file, cache, sessions>>
    /\ UNCHANGED dvars

Next ==
    \E s \in Sessions :
        \/ Load(s) \/ Sliders(s) \/ Filter(s) \/ Summary(s) \/ Studios(s)
        \/ Gems(s) \/ Trends(s) \/ Types(s) \/ Search(s) \/ Rerun(s)

(***************************************************************************)
(* Catalogs.  Each specification starts from a file that cannot be read or *)
(* from any catalog of a family of rows that varies the columns one stage  *)
(* depends on.                                                             *)
(***************************************************************************)
MaxRows == 2
MaxGemRows == 3
MaxTrendRows == 3
MaxSearchRows == 2
MaxSharedRows == 2
MaxBulk == 11

Unreadable == [readable |-> FALSE, rows |-> <<>>]
Files(rows, n) ==
    {Unreadable} \cup {[readable |-> TRUE, rows |-> rs] : rs \in SeqsUpTo(rows, n)}

\* The text of a list of quoted strings, e.g. ['A','B'].
RECURSIVE Joined(_)
Joined(names) ==
    IF names = <<>> THEN <<>>
    ELSE IF Len(names) = 1 THEN <<"'" \o names[1] \o "'">>
    ELSE <<"'" \o names[1] \o "'", ",">> \o Joined(Tail(names))
ListText(names) == PyStr(<<"[">> \o Joined(names) \o <<"]">>)

Date(y) == <<y, 4, 1>>
BadDate == <<2005, 13, 1>>
NoDate == <<>>

\* Four profiles of a row: complete, all optional cells missing, outside
\* the hidden-gem and trend populations, and with a number for genres.
\* The main catalogs vary the date and the score of the complete one.
Complete(d, sc) ==
    CsvRow(<<"A", "b">>, sc, d, ListText(<<"A", "B">>), ListText(<<"C">>), 150, 90, "TV")
Sparse(d, sc) == CsvRow(NoTitle, sc, d, PyNaN, PyNaN, NaN, NaN, NoType)
Plain(d, sc) == CsvRow(<<"b", ".">>, sc, d, PyStr(<<"[", "]">>), PyStr(<<"A">>), 100, 30, "Movie")
Scalar(d, sc) == CsvRow(<<"a">>, sc, d, PyStr(<<"5">>), ListText(<<"C">>), 300, 30, "TV")

MainRows ==
    {Complete(d, sc) : d \in {BadDate, Date(1995), Date(2005)}, sc \in {NaN, 70, 80}}
        \cup {Sparse(Date(2005), 80), Plain(Date(2005), 80), Scalar(Date(2005), 80)}

\* Rows that vary members and recommendation_count.
GemRow(m, rc) ==
    CsvRow(<<"a">>, 80, Date(2005), ListText(<<"A">>), ListText(<<"C">>), m, rc, "TV")
GemRows == {GemRow(m, rc) : m \in {NaN, 100, 150, 300}, rc \in {NaN, 30, 90}}

\* k little-known rows with rising ratios after k + 1 popular rows.
BulkRows(k) ==
    [i \in 1..(2 * k + 1) |->
        IF i <= k + 1 THEN GemRow(300, 3) ELSE GemRow(150, 10 + i)]
GemFiles ==
    Files(GemRows, MaxGemRows)
        \cup {[readable |-> TRUE, rows |-> BulkRows(k)] : k \in 1..MaxBulk}

\* Rows that vary the date and the genres.
TrendRow(d, g) == CsvRow(<<"a">>, 80, d, g, ListText(<<"C">>), 150, 90, "TV")
TrendRows ==
    {TrendRow(d, g) :
        d \in {NoDate, Date(1995), Date(2005)},
        g \in {PyNaN, ListText(<<"A">>), ListText(<<"B", "A", "B">>),
               ListText(<<"B", "C", "D", "E", "F", "G">>)}}

\* Rows that vary the title.
SearchRow(t) ==
    CsvRow(t, 80, Date(2005), ListText(<<"A">>), ListText(<<"C">>), 150, 90, "TV")
SearchRows ==
    {SearchRow(t) : t \in {NoTitle, <<"a">>, <<"A", "b">>, <<"b", "a">>, <<"b", ".">>}}

\* Rows for two sessions at once.
SharedRows == {Complete(Date(1995), 70), Complete(Date(2005), 80), Plain(Date(2005), 80)}

InitWith(files, connected) ==
    /\ file \in files
    /\ cache = NoCache
    /\ sessions = connected
    /\ pc = [s \in Sessions |-> "start"]
    /\ env = [s \in Sessions |-> FreshEnv]
    /\ widgets = [s \in Sessions |-> NoWidgets]
    /\ d_in = NoValue /\ d_out1 = NoValue /\ d_out2 = NoValue /\ d_pc = "idle"
    /\ numpy_empty_raises = FALSE

Init == InitWith(Files(MainRows, MaxRows), {1})
InitGems == InitWith(GemFiles, {1})
InitTrends == InitWith(Files(TrendRows, MaxTrendRows), {1})
InitSearch == InitWith(Files(SearchRows, MaxSearchRows), {1})
InitShared == InitWith(Files(SharedRows, MaxSharedRows), Sessions)

Spec == Init /\ [][Next]_vars
SpecGems == InitGems /\ [][Next]_vars
SpecTrends == InitTrends /\ [][Next]_vars
SpecSearch == InitSearch /\ [][Next]_vars
SpecShared == InitShared /\ [][Next]_vars

(***************************************************************************)
(* The decoder on its own: every kind of cell value, decoded once and      *)
(* then once more.                                                         *)
(***************************************************************************)
RawStrings == {PyStr(s) : s \in SeqsUpTo(Tok, MaxTok)}
StructuredLists == {PyList(items) : items \in SeqsUpTo({StrItem("A"), StrItem("B")}, MaxElems)}
RawValues == {PyNaN, PyInt(<<"5">>)} \cup RawStrings \cup StructuredLists

InitDecode ==
    /\ d_in \in RawValues
    /\ d_out1 = NoValue
    /\ d_out2 = NoValue
    /\ d_pc = "arg"
    /\ numpy_empty_raises \in BOOLEAN
    /\ file = Unreadable /\ cache = NoCache /\ sessions = {}
    /\ pc = [s \in Sessions |-> "start"]
    /\ env = [s \in Sessions |-> FreshEnv]
    /\ widgets = [s \in Sessions |-> NoWidgets]

DecodeOnce ==
    /\ d_pc = "arg"
    /\ d_out1' = safe_eval(d_in, numpy_empty_raises)
    /\ d_pc' = "once"
    /\ UNCHANGED <<d_in, d_out2, numpy_empty_raises>>
    /\ UNCHANGED pvars

DecodeAgain ==
    /\ d_pc = "once"
    /\ d_out2' = safe_eval(d_out1, numpy_empty_raises)
    /\ d_pc' = "twice"
    /\ UNCHANGED <<d_in, d_out1, numpy_empty_raises>>
    /\ UNCHANGED pvars

NextDecode == DecodeOnce \/ DecodeAgain

SpecDecode == InitDecode /\ [][NextDecode]_vars

IsSequence(v) == v.t \in {"list", "tuple"}
Malformed(v) == v.t = "str" /\ ~literal_eval(v.s).ok

\* C3: decoding always yields a sequence (never a scalar), and null,
\* empty-literal and malformed inputs yield the empty sequence.
C3_DecodeIsSequence ==
    d_pc \in {"once", "twice"} =>
        /\ IsSequence(d_out1)
        /\ (d_in.t = "nan" \/ is_empty_literal(d_in) \/ Malformed(d_in)) => d_out1 = EmptyList

\* C4: decoding is idempotent: an already-structured list of strings comes
\* back unchanged, and decoding a decoded value changes nothing.
C4_DecodeIdempotent ==
    /\ (d_pc \in {"once", "twice"} /\ d_in.t = "list") => d_out1 = d_in
    /\ d_pc = "twice" => d_out2 = d_out1

(***************************************************************************)
(* The claims about the running program.                                   *)
(***************************************************************************)
Base == load_data(file, numpy_empty_raises).df
Has(s, stage) == s \in sessions /\ stage \in E(s).computed

\* The rows of the subset the hidden-gem medians are taken over, stated
\* from the claim: recommendation_count present and members > 100.
Population(rows) ==
    SelectSeq(rows, LAMBDA r : r.recommendation_count # NaN /\ r.members # NaN
                                /\ r.members > 100)
RatioOf(r) == <<r.recommendation_count, r.members>>

\* C1: every hidden gem is a row of the restricted population, lies below
\* that population's median members and above its median ratio; at most
\* ten are returned, by descending ratio.
C1_HiddenGems ==
    \A s \in Sessions : Has(s, "gems") =>
        LET h == E(s).hidden
            pop == Population(E(s).df_filtered)
            mm == median(Column(pop, LAMBDA r : <<r.members, 1>>))
            mr == median(Column(pop, RatioOf))
        IN /\ Len(h) <= 10
           /\ \A i \in DOMAIN h :
                 /\ \E j \in DOMAIN pop :
                       /\ pop[j].index = h[i].index
                       /\ pop[j].members = h[i].members
                       /\ pop[j].title = h[i].title
                       /\ RatioOf(pop[j]) = h[i].rec_ratio
                 /\ LessQ(<<h[i].members, 1>>, mm)
                 /\ LessQ(mr, h[i].rec_ratio)
           /\ \A i, j \in DOMAIN h : i < j => ~LessQ(h[i].rec_ratio, h[j].rec_ratio)
           /\ \A i, j \in DOMAIN h : i # j => h[i].index # h[j].index

\* More than ten rows qualify and ten are returned, the first out of
\* table order.
C1_Witness ==
    /\ Has(1, "gems")
    /\ Len(E(1).hidden) = 10
    /\ Len(Population(E(1).df_filtered)) > 20
    /\ E(1).hidden[1].index > E(1).hidden[2].index

\* The restricted set of the genre grid, stated from the claim.
WithGenres(rows) == SelectSeq(rows, LAMBDA r : Len(r.genres_list.items) > 0)
GenresIn(rows) == Flatten(Column(rows, LAMBDA r : r.genres_list))
DecadesIn(rows) == {(rows[i].year \div 10) * 10 : i \in DOMAIN rows}

\* The grid has perDecade rows per decade, each (decade, genre) pair once,
\* decades ascending, counts >= 0 and each genre's counts adding up to its
\* occurrences in the restricted set.
GridIsDense(grid, restricted, perDecade) ==
    LET decades == DecadesIn(restricted)
        listed == {grid[k].genre : k \in DOMAIN grid}
    IN /\ Len(grid) = Cardinality(decades) * perDecade
       /\ Cardinality(listed) = perDecade
       /\ {grid[k].decade : k \in DOMAIN grid} = decades
       /\ \A d \in decades, g \in listed :
             Cardinality({k \in DOMAIN grid : grid[k].decade = d /\ grid[k].genre = g}) = 1
       /\ \A k, l \in DOMAIN grid : k < l => grid[k].decade <= grid[l].decade
       /\ \A k \in DOMAIN grid : grid[k].count >= 0
       /\ \A g \in listed :
             SumSeq(Column(SelectSeq(grid, LAMBDA c : c.genre = g), LAMBDA c : c.count))
                 = Occurrences(GenresIn(restricted), g)

\* C2 as stated: six rows per decade whenever the restricted set has a
\* genre.
C2_GridSixPerDecade ==
    \A s \in Sessions :
        (Has(s, "trends") /\ GenresIn(WithGenres(E(s).df_filtered)) # <<>>) =>
            GridIsDense(E(s).genre_df, WithGenres(E(s).df_filtered), 6)

\* C2 amended: per decade, one row for each of the distinct genres of the
\* restricted set, up to six.
C2_GridDense ==
    \A s \in Sessions :
        (Has(s, "trends") /\ GenresIn(WithGenres(E(s).df_filtered)) # <<>>) =>
            LET distinct == Cardinality(Range(GenresIn(WithGenres(E(s).df_filtered))))
            IN GridIsDense(E(s).genre_df, WithGenres(E(s).df_filtered),
                           IF distinct < 6 THEN distinct ELSE 6)

\* Seven genres over two decades: twelve rows, one genre left out, and a
\* count of zero in the grid.
C2_Witness ==
    /\ Has(1, "trends")
    /\ Cardinality(Range(GenresIn(WithGenres(E(1).df_filtered)))) = 7
    /\ Len(E(1).genre_df) = 12
    /\ \E k \in DOMAIN E(1).genre_df : E(1).genre_df[k].count = 0

LiteralContains(title, query) ==
    /\ title # NoTitle
    /\ \E i \in 1..(Len(title) - Len(query) + 1) :
          \A j \in 1..Len(query) : lower(query[j]) = lower(title[i + j - 1])

\* C6: an empty query leaves the subset as it is; any other query keeps
\* exactly the rows whose title contains it literally, case ignored.
C6_SearchLiteral ==
    \A s \in Sessions : Has(s, "search") =>
        E(s).results =
            IF widgets[s].search = <<>> THEN E(s).df_filtered
            ELSE SelectSeq(E(s).df_filtered,
                           LAMBDA r : LiteralContains(r.title, widgets[s].search))

\* C7: when the file cannot be read the run shows the message and stops:
\* no filter, aggregate or search is ever computed.
C7_LoadFailureHalts ==
    \A s \in Sessions :
        (s \in sessions /\ ~file.readable) =>
            /\ pc[s] \in {"start", "stopped"}
            /\ E(s).computed \subseteq {"load"}
            /\ [E(s) EXCEPT !.message = "", !.computed = {}] = FreshEnv
            /\ pc[s] = "stopped" =>
                  E(s).message = "Dataset not found. Please upload anime_dataset.csv"

\* The load has failed, also on a later run.
C7_Witness == ~file.readable /\ pc[1] = "stopped" /\ cache.state = "set"

\* C8: the base table, in the cache and in every run, stays what the load
\* made of the file, whatever has run since; two filters with the same
\* bounds give the same subset.
C8_BaseUnchanged ==
    /\ cache.state = "set" => (cache.df = Base /\ cache.ok = file.readable)
    /\ \A s \in Sessions : Has(s, "load") => E(s).df = Base
    /\ \A s, t \in Sessions :
          (/\ Has(s, "filter") /\ Has(t, "filter")
           /\ widgets[s].year_range = widgets[t].year_range
           /\ widgets[s].score_min = widgets[t].score_min)
          => E(s).df_filtered = E(t).df_filtered

\* Two passes with the same bounds have dropped a row, kept a row and
\* derived the ratio and decade columns.
C8_Witness ==
    /\ pc[1] = "done" /\ pc[2] = "done"
    /\ widgets[1].year_range = widgets[2].year_range
    /\ widgets[1].score_min = widgets[2].score_min
    /\ Len(E(1).df_filtered) > 0
    /\ Len(E(1).df_filtered) < Len(Base)
    /\ Len(E(1).df_gems) > 0 /\ Len(E(1).df_trends) > 0

\* How far a run has come.
Reached(s, p) ==
    LET order == <<"start", "sliders", "filter", "summary", "studios", "gems",
                   "trends", "types", "search", "done">>
        at(q) == CHOOSE i \in DOMAIN order : order[i] = q
    IN s \in sessions /\ pc[s] \in Range(order) /\ at(pc[s]) > at(p)

\* The subset a run with the widget values w computes on its own, from the
\* table the load made of the file.
Alone(w) == filter_rows(Base, w.year_range, w.score_min)

Agrees(e, alone, fields) == \A f \in fields : e[f] = alone[f]

\* C9: however the runs of the sessions interleave, every table and
\* accumulator of a run is the one the run computes on its own.
C9_Reentrant ==
    \A s \in Sessions :
        LET sub == Alone(widgets[s])
            e == E(s)
        IN /\ Reached(s, "filter") => e.df_filtered = sub
           /\ Reached(s, "summary") =>
                 Agrees(e, summary(sub), {"total", "avg_score", "total_members",
                                          "genres_flat", "top_genre"})
           /\ Reached(s, "studios") =>
                 Agrees(e, studios(sub), {"studios_flat", "top_studios"})
           /\ Reached(s, "gems") =>
                 Agrees(e, gems(sub), {"df_gems", "median_members", "median_ratio",
                                       "hidden"})
           /\ Reached(s, "trends") =>
                 Agrees(e, trends(sub), {"df_trends", "top_genres", "genre_df"})
           /\ Reached(s, "types") =>
                 Agrees(e, types(sub), {"type_counts", "type_scores"})
           /\ Reached(s, "search") =>
                 Agrees(e, search_results(sub, widgets[s].search),
                        {"search", "results", "shown"})

\* Two runs with different bounds are both through, with different
\* subsets and grids.
C9_Witness ==
    /\ pc[1] = "done" /\ pc[2] = "done"
    /\ widgets[1].score_min # widgets[2].score_min
    /\ E(1).df_filtered # E(2).df_filtered
    /\ E(1).genre_df # E(2).genre_df
    /\ E(1).genre_df # <<>>

\* C10: on an empty subset every stage runs through to a neutral result,
\* and so do the hidden gems and the grid on an empty restricted set;
\* none raises.
C10_EmptyTolerated ==
    \A s \in Sessions :
        /\ (Has(s, "filter") /\ E(s).df_filtered = <<>>) =>
              /\ pc[s] # "error"
              /\ Has(s, "summary") => (E(s).total = 0 /\ E(s).top_genre = NAItem)
              /\ Has(s, "studios") => E(s).top_studios = <<>>
              /\ Has(s, "gems") => E(s).hidden = <<>>
              /\ Has(s, "trends") => E(s).genre_df = <<>>
              /\ Has(s, "types") => (E(s).type_counts = <<>> /\ E(s).type_scores = <<>>)
              /\ Has(s, "search") => E(s).results = <<>>
        /\ (Has(s, "gems") /\ E(s).df_gems = <<>>) => E(s).hidden = <<>>
        /\ (Has(s, "trends") /\ E(s).df_trends = <<>>) => E(s).genre_df = <<>>

\* Beside C10: with a query that compiles, the stages do run through to
\* neutral results on an empty subset.
EmptyToleratedWhenQueryCompiles ==
    \A s \in Sessions :
        (Has(s, "filter") /\ E(s).df_filtered = <<>> /\ ~regex_raises(widgets[s].search)) =>
            /\ pc[s] # "error"
            /\ Has(s, "summary") => (E(s).total = 0 /\ E(s).top_genre = NAItem)
            /\ Has(s, "studios") => E(s).top_studios = <<>>
            /\ Has(s, "gems") => E(s).hidden = <<>>
            /\ Has(s, "trends") => E(s).genre_df = <<>>
            /\ Has(s, "types") => (E(s).type_counts = <<>> /\ E(s).type_scores = <<>>)
            /\ Has(s, "search") => E(s).results = <<>>
====
